---- MODULE Spec2Model ----
(***************************************************************************)
(* The reporter node of sx-network/sx-reporter-node as a state machine:    *)
(* the AMQP consumer and its supervisor loop, the chain event listener,    *)
(* the market item store and its timed dispatcher, the buffered            *)
(* reporting-tx channel and the single worker that drains it through       *)
(* sendTxWithRetry, together with the broker, the chain and the clock      *)
(* they talk to.                                                           *)
(***************************************************************************)
EXTENDS Integers, Sequences, FiniteSets, TLC

----------------------------------------------------------------------------
(* Bounds of the model.                                                    *)

\* Largest value of the machine word standing for Go's uint64; arithmetic
\* on timestamps, periods and nonces wraps modulo UintMax + 1.
UintMax == 7
\* Capacity of reportingTxChan (100 in the source), scaled down.
ChanCap == 2
\* Bus messages published while the channel is watched.
ChanDeliveries == 2
\* Last value of the wall clock.
MaxNow == 2
\* Number of chain log events the listener is handed.
MaxEvents == 2
\* Number of subscription errors the two log streams raise.
MaxSubErrors == 1
\* Number of bus deliveries waiting at the broker, per specification.
MaxDeliveries == 3
BusDeliveries == 1
\* Number of termination signals seen by the consume loop.
MaxSignals == 1
\* Number of reporting-txs initially queued in the sender-only specification.
MaxQueued == 2

(* Program constants.                                                      *)
maxTxTries == 4
\* In units of 10^9 wei: 1000000000 in the source.
txGasPriceWei == 1
txGasLimitWei == 1000000

Markets == {"h1", "h2"}
NoMarket == "none"
ProposeOutcome == "proposeOutcome"
VoteOutcome == "voteOutcome"
ReportOutcome == "reportOutcome"
FunctionTypes == {ProposeOutcome, VoteOutcome, ReportOutcome}

\* Outcome carried by a valid bus message, outcomes the verifier answers.
BusOutcomes == {2}
VerifierOutcomes == {3}
\* blockTime values of ProposeOutcome events and answers of _votingPeriod().
BlockTimes == {1, 2}
Periods == {1, UintMax}
\* The outcome -1: "not decided", what callers of queueReportingTx pass for a
\* Vote and a Report.
Undecided == -1
\* Marks an absent entry of marketItems.
NoEntry == -1

VARIABLES
  now,             \* time.Now().Unix()
  alive,           \* FALSE once a goroutine has panicked (the process is gone)
  bus,             \* the deliveries published to the queue, in order
  delivered,       \* how many of them the broker has handed to a consumer
  amqpOpen,        \* mq.connection.Channel is usable
  consumers,       \* consumer goroutines, by the startConsumer call that made them
  supGen,          \* the call whose reports/errors startConsumeLoop selects on; 0: nil
  acked,           \* ids of acknowledged deliveries
  proposeCount,    \* per delivery id: Propose reporting-txs put on the channel for it
  signals,         \* termination signals received so far
  proposeOutcome,  \* [sub, logs]: proposeOutcomeSub, proposeOutcomeLogs
  outcomeReported, \* [sub, logs]: outcomeReportedSub, outcomeReportedLogs
  subCount,        \* subscriptions made so far (names the next handle)
  subErrors,       \* subscription errors raised so far
  eventsSeen,      \* log events handed to the listener so far
  lastEvent,       \* the last of them: its kind, its fields, what was answered
  lsnAdd,          \* store.add the listener still owes after a blocked Vote send
  marketItems,     \* MarketItemStore.marketItems
  votingPeriod,    \* config.OutcomeVotingPeriodSeconds
  scanLeft,        \* keys the dispatcher's range loop has still to visit
  lastWake,        \* clock value of the dispatcher's last wake-up
  reportingTxChan, \* buffer of the reporting-tx channel
  sendq,           \* producers blocked sending on the full channel, in order
  invocations,     \* running sendTxWithRetry calls
  txLog,           \* how the last finished sendTxWithRetry call ended
  chainNonce,      \* transaction count of the reporter account on chain
  nonceRpc,        \* "healthy" or "faulty": the endpoint getCurrentNonce asks
  pollTasks,       \* goroutines started by waitTxConfirmed that have not ended
  storeProcessor   \* reporterService.storeProcessor: "nil" or "set"

mqVars == <<bus, delivered, amqpOpen, consumers, supGen, acked, proposeCount, signals>>
lsnVars == <<proposeOutcome, outcomeReported, subCount, subErrors, eventsSeen, lastEvent,
            lsnAdd>>
storeVars == <<marketItems, votingPeriod>>
dispVars == <<scanLeft, lastWake, storeProcessor>>
chanVars == <<reportingTxChan, sendq>>
txVars == <<invocations, txLog, chainNonce, nonceRpc, pollTasks>>
vars == <<now, alive, mqVars, lsnVars, storeVars, dispVars, chanVars, txVars>>

----------------------------------------------------------------------------
(* Helpers.                                                                *)

UintMod == UintMax + 1

\* Max of part_009.
Max(a, b) == IF a > b THEN a ELSE b

\* uint64 addition.
UAdd(a, b) == (a + b) % UintMod

\* uint64(blockTimestamp.Int64()): the low 64 bits of the event's uint256.
ToUint64(x) == x % UintMod

ReportingTx(f, h, o) == [functionType |-> f, marketHash |-> h, outcome |-> o]

NoDelivery == [id |-> 0, valid |-> FALSE, marketHash |-> NoMarket, outcome |-> 0]

Deliveries(n) ==
  { q \in [1..n -> [valid : BOOLEAN, marketHash : Markets, outcome : BusOutcomes]] :
      \A i \in 1..n : ~q[i].valid => q[i].marketHash = "h1" }

BusInput(n) ==
  { [i \in 1..n |-> [id |-> i, valid |-> q[i].valid,
                     marketHash |-> q[i].marketHash, outcome |-> q[i].outcome]] :
      q \in Deliveries(n) }

Blocked(who) == \E i \in 1..Len(sendq) : sendq[i].who = who

StoreKeys == {h \in Markets : marketItems[h] # NoEntry}

\* A remove that leaves the map as it is.
StoreRemoveNothing(m, h) == m

\* An add that keeps the timestamp of a hash already present.
StoreAddKeepingFirst(m, h, ts) == IF m[h] = NoEntry THEN [m EXCEPT ![h] = ts] ELSE m

\* MarketItemStore.add and MarketItemStore.remove.
StoreAdd(m, h, ts) == [m EXCEPT ![h] = ts]
StoreRemove(m, h) == [m EXCEPT ![h] = NoEntry]

\* An eligibility test that wants the voting period to be over, not ending.
EligibleStrict(ts, period, t) == UAdd(ts, period) < t

\* The eligibility test of startProcessingLoop.
Eligible(ts, period, t) == UAdd(ts, period) <= t

----------------------------------------------------------------------------
(* The reporting-tx channel.                                               *)

\* A send that gives up when the buffer is full.
ChanSendDropping(who, tx, id) ==
  /\ reportingTxChan' = IF Len(reportingTxChan) < ChanCap
                          THEN Append(reportingTxChan, tx) ELSE reportingTxChan
  /\ sendq' = sendq

\* d.reportingTxChan <- reportingTx by producer who: into the buffer when
\* there is room, else the producer parks on the channel's send queue.
ChanSend(who, tx, id) ==
  IF Len(reportingTxChan) < ChanCap
    THEN /\ reportingTxChan' = Append(reportingTxChan, tx)
         /\ sendq' = sendq
    ELSE /\ reportingTxChan' = reportingTxChan
         /\ sendq' = Append(sendq, [who |-> who, tx |-> tx, id |-> id])

\* Whether the send just made went into the buffer.
SentNow == Len(reportingTxChan) < ChanCap

\* A receive: the head of the buffer leaves and the first parked producer's
\* element takes the freed slot.
ChanRecv ==
  IF sendq = <<>>
    THEN /\ reportingTxChan' = Tail(reportingTxChan)
         /\ sendq' = sendq
    ELSE /\ reportingTxChan' = Append(Tail(reportingTxChan), Head(sendq).tx)
         /\ sendq' = Tail(sendq)

\* The Propose count after a receive released a parked consume loop.
CountAfterRecv ==
  IF sendq # <<>> /\ Head(sendq).who = "mq"
    THEN [proposeCount EXCEPT ![Head(sendq).id] = @ + 1]
    ELSE proposeCount

----------------------------------------------------------------------------
(* The worker: processTxsFromQueue and sendTxWithRetry.                    *)

\* Values getCurrentNonce can hand back when the account's count is count.
\* The nonce RPC is another endpoint than the sending one: a healthy one is
\* at most one transaction behind; a faulty one may be any number behind,
\* and a failed lookup yields 0; one that is down fails every lookup.
NonceAnswers(count) ==
  IF nonceRpc = "healthy" THEN {Max(count - 1, 0), count}
  ELSE IF nonceRpc = "faulty" THEN 0..count
  ELSE {0}

\* A gas price that doubles with every attempt.
GasPriceDoubling(txTry) == txGasPriceWei * (2 ^ txTry)

\* TxnOpts.GasPrice of attempt txTry.
GasPrice(txTry) == txGasPriceWei + (txTry * txGasPriceWei)

\* A sendTxWithRetry call at the top of its loop: pc tells whether the
\* attempt is still to be handed to txn.Do or waits for its receipt.
Invocation(tx, nonce) ==
  [pc |-> "send", functionType |-> tx.functionType, marketHash |-> tx.marketHash,
   outcome |-> tx.outcome, txTry |-> 0, currNonce |-> nonce, gasPrice |-> GasPrice(0),
   gasLimit |-> txGasLimitWei]

\* A worker that hands each reporting-tx to a goroutine of its own.
WorkerReadyAsync == TRUE

\* The range loop of processTxsFromQueue is back at its receive only when
\* the sendTxWithRetry call it made has returned.
WorkerReady == invocations = {}

\* processTxsFromQueue takes the next reporting-tx and sendTxWithRetry runs
\* up to its first loop test, with the nonce the RPC answered.
ProcessTxsFromQueue ==
  \E rpc \in NonceAnswers(chainNonce) :
    /\ alive
    /\ WorkerReady
    /\ reportingTxChan # <<>>
    /\ invocations' = invocations \cup {Invocation(Head(reportingTxChan), rpc)}
    /\ ChanRecv
    /\ proposeCount' = CountAfterRecv
    /\ txLog' = "none"
    /\ UNCHANGED <<now, alive, bus, delivered, amqpOpen, consumers, supGen, acked, signals,
                   lsnVars, storeVars, dispVars, chainNonce, nonceRpc, pollTasks>>

\* A sendTxWithRetry that cleans the store up after a call of any kind.
StoreAfterTxOfAnyKind(t, how) ==
  IF how \in {"success", "exhausted"}
    THEN StoreRemove(marketItems, t.marketHash)
    ELSE marketItems

\* A sendTxWithRetry that cleans the store up however a Report call ends.
StoreAfterTxHoweverEnded(t, how) ==
  IF t.functionType = ReportOutcome
    THEN StoreRemove(marketItems, t.marketHash)
    ELSE marketItems

\* A sendTxWithRetry that cleans the store up only when it ran out of tries.
StoreAfterTxOnExhaustion(t, how) ==
  IF how = "exhausted" /\ t.functionType = ReportOutcome
    THEN StoreRemove(marketItems, t.marketHash)
    ELSE marketItems

\* A sendTxWithRetry that cleans the store up after a success receipt only.
StoreAfterTxOnSuccess(t, how) ==
  IF how = "success" /\ t.functionType = ReportOutcome
    THEN StoreRemove(marketItems, t.marketHash)
    ELSE marketItems

\* The store after invocation t has ended the way how says.
StoreAfterTx(t, how) ==
  IF how \in {"success", "exhausted"} /\ t.functionType = ReportOutcome
    THEN StoreRemove(marketItems, t.marketHash)
    ELSE marketItems

\* The nonce of the next attempt, from the freshly fetched r.
NextNonce(r) == Max(r, UAdd(r, 1))

\* Invocation t ends: its log line is written and the store cleaned up.
EndTx(t, how) ==
  /\ invocations' = invocations \ {t}
  /\ txLog' = how
  /\ marketItems' = StoreAfterTx(t, how)

\* After a failed attempt of invocation t: the nonce is refreshed from the
\* RPC answer r, txTry is bumped and the loop test is made again; when it
\* fails the call ends as exhausted.
RetryTx(t, r) ==
  IF t.txTry + 1 < maxTxTries
    THEN /\ invocations' = (invocations \ {t}) \cup
                {[t EXCEPT !.pc = "send", !.txTry = @ + 1, !.currNonce = NextNonce(r),
                            !.gasPrice = GasPrice(t.txTry + 1)]}
         /\ UNCHANGED <<txLog, marketItems>>
    ELSE EndTx(t, "exhausted")

\* txn.Do is refused with "nonce too low": the account's count is already
\* past the nonce of the attempt.
SendTxNonceTooLow ==
  \E t \in invocations, r \in NonceAnswers(chainNonce) :
    /\ alive
    /\ t.pc = "send"
    /\ t.currNonce < chainNonce
    /\ RetryTx(t, r)
    /\ UNCHANGED <<now, alive, mqVars, lsnVars, votingPeriod, dispVars, chanVars, chainNonce,
                   nonceRpc, pollTasks>>

\* txn.Do fails with any other error: log and return.
SendTxError ==
  \E t \in invocations :
    /\ alive
    /\ t.pc = "send"
    /\ EndTx(t, "fatal")
    /\ UNCHANGED <<now, alive, mqVars, lsnVars, votingPeriod, dispVars, chanVars, chainNonce,
                   nonceRpc, pollTasks>>

\* txn.Do succeeds: the transaction is in the node's pool, waitTxConfirmed
\* starts a goroutine that polls for its receipt, and the worker waits on
\* the channel that goroutine sends on.
SendTxAccepted ==
  \E t \in invocations :
    /\ alive
    /\ t.pc = "send"
    /\ t.currNonce >= chainNonce
    /\ invocations' = (invocations \ {t}) \cup {[t EXCEPT !.pc = "wait"]}
    /\ pollTasks' = pollTasks + 1
    /\ UNCHANGED <<now, alive, mqVars, lsnVars, storeVars, dispVars, chanVars, txLog,
                   chainNonce, nonceRpc>>

\* The chain mines a pooled transaction only when its nonce is the account's
\* count; the count is kept within the machine word.
Mineable(t) == t.pc = "wait" /\ t.currNonce = chainNonce /\ chainNonce < UintMax

\* The poll goroutine after it has handed its receipt over: its for loop has
\* no exit, so it sleeps, polls again and stays on its second send for ever.
PollTasksAfterReceipt == pollTasks

\* The transaction is mined with status 1 and its receipt read.
ReceiptSuccess ==
  \E t \in invocations :
    /\ alive
    /\ Mineable(t)
    /\ chainNonce' = chainNonce + 1
    /\ EndTx(t, "success")
    /\ pollTasks' = PollTasksAfterReceipt
    /\ UNCHANGED <<now, alive, mqVars, lsnVars, votingPeriod, dispVars, chanVars, nonceRpc>>

\* The transaction is mined with status 0 and its receipt read.
ReceiptFailed ==
  \E t \in invocations, r \in NonceAnswers(chainNonce + 1) :
    /\ alive
    /\ Mineable(t)
    /\ chainNonce' = chainNonce + 1
    /\ RetryTx(t, r)
    /\ pollTasks' = PollTasksAfterReceipt
    /\ UNCHANGED <<now, alive, mqVars, lsnVars, votingPeriod, dispVars, chanVars, nonceRpc>>

\* processTxsFromQueue takes the next reporting-tx while the secrets backend
\* fails GetPrivateKeyFromSecretsManager: the error is logged and the call
\* goes on with a nil key. GetValidatorAddressFromSecretManager asks the
\* backend again: when that fails too (again = FALSE) the call returns; when
\* it succeeds, wallet.NewKey is handed the nil key and its dereference
\* panics.
ProcessTxsFromQueueNoKey(again) ==
  /\ alive
  /\ WorkerReady
  /\ reportingTxChan # <<>>
  /\ ChanRecv
  /\ proposeCount' = CountAfterRecv
  /\ txLog' = "private key error"
  /\ alive' = ~again
  /\ UNCHANGED <<now, bus, delivered, amqpOpen, consumers, supGen, acked, signals,
                 lsnVars, storeVars, dispVars, invocations, chainNonce, nonceRpc, pollTasks>>

\* What the secrets backend does with the second lookup of a call.
WorkerNoKey == \E again \in BOOLEAN : ProcessTxsFromQueueNoKey(again)

Worker ==
  \/ ProcessTxsFromQueue
  \/ SendTxNonceTooLow
  \/ SendTxError
  \/ SendTxAccepted
  \/ ReceiptSuccess
  \/ ReceiptFailed

----------------------------------------------------------------------------
(* queueReportingTx.                                                       *)

\* What verifyMarket and the _votingPeriod call answer when they fail.
VerifyFailed == -2
CallFailed == -1

\* A queueReportingTx that sends the Vote whatever verifyMarket returned.
QueuesUnverified(f, v) == f \in FunctionTypes

\* Whether queueReportingTx reaches its channel send: a Vote whose
\* verification failed and an unknown function type are skipped.
Queues(f, v) == f \in FunctionTypes /\ ~(f = VoteOutcome /\ v = VerifyFailed)

\* A queueReportingTx that asks the verifier for a Propose as for a Vote.
QueuedOutcomeVerified(f, o, v) == IF f = ReportOutcome THEN 0 ELSE v

\* A queueReportingTx that keeps the caller's outcome for a Vote too.
QueuedOutcomeOfCaller(f, o, v) == IF f = ReportOutcome THEN 0 ELSE o

\* The outcome queueReportingTx puts into the reporting-tx: the caller's for
\* a Propose, the verifier's for a Vote, the zero value for a Report.
QueuedOutcome(f, o, v) ==
  IF f = ProposeOutcome THEN o ELSE IF f = VoteOutcome THEN v ELSE 0

\* queueReportingTx(f, h, o) called by producer who; v is the verifier's
\* answer, used for a Vote only.
QueueReportingTx(who, f, h, o, v, id) ==
  IF Queues(f, v)
    THEN ChanSend(who, ReportingTx(f, h, QueuedOutcome(f, o, v)), id)
    ELSE UNCHANGED chanVars

----------------------------------------------------------------------------
(* The event listener: startListeningLoop.                                 *)

NoAdd == [marketHash |-> NoMarket, ts |-> 0]

\* A handled log: the event it carries, its market hash and block time as
\* unpacked, and what _votingPeriod() and the verifier answered meanwhile.
Event(kind, h, bt, p, v) ==
  [kind |-> kind, marketHash |-> h, blockTime |-> bt, period |-> p, verifier |-> v]

NoEvent == Event("none", NoMarket, 0, CallFailed, VerifyFailed)

\* The loop is at its select: not parked on the channel and owing no add.
ListenerAtSelect == ~Blocked("lsn") /\ lsnAdd = NoAdd

\* Evaluating the select calls Err() on both subscription handles.
SelectEvaluates == proposeOutcome.sub # 0 /\ outcomeReported.sub # 0

\* A syncVotingPeriod that falls back to zero when the call fails.
SyncVotingPeriodResetting(p) == IF p = CallFailed THEN 0 ELSE ToUint64(p)

\* syncVotingPeriod with the chain answering p.
SyncVotingPeriod(p) == IF p = CallFailed THEN votingPeriod ELSE ToUint64(p)

\* A handler that calls store.add before queueReportingTx: the market is in
\* the store while the send of its Vote is still to be made.
HandleProposeOutcomeAddFirst(h, bt, p, v) ==
  /\ alive /\ ListenerAtSelect /\ SelectEvaluates
  /\ proposeOutcome.logs # 0
  /\ eventsSeen < MaxEvents
  /\ eventsSeen' = eventsSeen + 1
  /\ lastEvent' = Event("ProposeOutcome", h, bt, p, v)
  /\ votingPeriod' = SyncVotingPeriod(p)
  /\ marketItems' = StoreAdd(marketItems, h, ToUint64(bt))
  /\ IF Queues(VoteOutcome, v)
       THEN /\ sendq' = Append(sendq, [who |-> "lsn", id |-> 0,
                                       tx |-> ReportingTx(VoteOutcome, h, v)])
            /\ UNCHANGED reportingTxChan
       ELSE UNCHANGED chanVars
  /\ UNCHANGED <<now, alive, mqVars, proposeOutcome, outcomeReported, subCount, subErrors,
                 lsnAdd, dispVars, txVars>>

\* e.reporterService.storeProcessor.store.add(h, ts) by the listener: while
\* storeProcessor is nil the field access is a nil dereference and the panic
\* ends the process.
ListenerStoreAdd(h, ts) ==
  IF storeProcessor = "nil"
    THEN alive' = FALSE /\ UNCHANGED marketItems
    ELSE alive' = alive /\ marketItems' = StoreAdd(marketItems, h, ts)

\* e.reporterService.storeProcessor.store.remove(h) by the listener.
ListenerStoreRemove(h) ==
  IF storeProcessor = "nil"
    THEN alive' = FALSE /\ UNCHANGED marketItems
    ELSE alive' = alive /\ marketItems' = StoreRemove(marketItems, h)

\* A ProposeOutcome log (h, blockTime bt) is handled: the voting period is
\* refreshed, the Vote is queued and the market is added to the store. When
\* the channel is full the loop parks before the add.
HandleProposeOutcome(h, bt, p, v) ==
  /\ alive /\ ListenerAtSelect /\ SelectEvaluates
  /\ proposeOutcome.logs # 0
  /\ eventsSeen < MaxEvents
  /\ eventsSeen' = eventsSeen + 1
  /\ lastEvent' = Event("ProposeOutcome", h, bt, p, v)
  /\ votingPeriod' = SyncVotingPeriod(p)
  /\ QueueReportingTx("lsn", VoteOutcome, h, -1, v, 0)
  /\ IF Queues(VoteOutcome, v) /\ ~SentNow
       THEN /\ lsnAdd' = [marketHash |-> h, ts |-> ToUint64(bt)]
            /\ UNCHANGED <<marketItems, alive>>
       ELSE /\ ListenerStoreAdd(h, ToUint64(bt))
            /\ UNCHANGED lsnAdd
  /\ UNCHANGED <<now, mqVars, proposeOutcome, outcomeReported, subCount, subErrors,
                 dispVars, txVars>>

\* The parked loop has been released by the worker's receive: store.add.
ListenerResume ==
  /\ alive /\ ~Blocked("lsn") /\ lsnAdd # NoAdd
  /\ ListenerStoreAdd(lsnAdd.marketHash, lsnAdd.ts)
  /\ lsnAdd' = NoAdd
  /\ UNCHANGED <<now, mqVars, proposeOutcome, outcomeReported, subCount, subErrors,
                 eventsSeen, lastEvent, votingPeriod, dispVars, chanVars, txVars>>

\* An OutcomeReported log for h is handled: store.remove.
HandleOutcomeReported(h) ==
  /\ alive /\ ListenerAtSelect /\ SelectEvaluates
  /\ outcomeReported.logs # 0
  /\ eventsSeen < MaxEvents
  /\ eventsSeen' = eventsSeen + 1
  /\ lastEvent' = Event("OutcomeReported", h, 0, CallFailed, VerifyFailed)
  /\ ListenerStoreRemove(h)
  /\ UNCHANGED <<now, mqVars, proposeOutcome, outcomeReported, subCount, subErrors,
                 lsnAdd, votingPeriod, dispVars, chanVars, txVars>>

\* A log whose data contractAbi.Unpack rejects is taken from the log stream
\* of kind: the error is logged and the case goes on, results is empty and
\* results[0] is an index out of range; the panic ends the process.
HandleUndecodableLog(kind) ==
  /\ alive /\ ListenerAtSelect /\ SelectEvaluates
  /\ IF kind = "ProposeOutcome" THEN proposeOutcome.logs # 0 ELSE outcomeReported.logs # 0
  /\ eventsSeen < MaxEvents
  /\ eventsSeen' = eventsSeen + 1
  /\ lastEvent' = Event(kind, NoMarket, 0, CallFailed, VerifyFailed)
  /\ alive' = FALSE
  /\ UNCHANGED <<now, mqVars, proposeOutcome, outcomeReported, subCount, subErrors, lsnAdd,
                 storeVars, dispVars, chanVars, txVars>>

\* What subscribeTo... returns: a fresh handle and log channel, or nil, nil.
Subscribed(ok) ==
  IF ok THEN [sub |-> subCount + 1, logs |-> subCount + 1] ELSE [sub |-> 0, logs |-> 0]

\* proposeOutcomeSub.Err() fires: sleep 5 s, subscribe again.
ProposeOutcomeSubError(ok) ==
  /\ alive /\ ListenerAtSelect /\ SelectEvaluates
  /\ subErrors < MaxSubErrors
  /\ subErrors' = subErrors + 1
  /\ proposeOutcome' = Subscribed(ok)
  /\ subCount' = IF ok THEN subCount + 1 ELSE subCount
  /\ UNCHANGED <<now, alive, mqVars, outcomeReported, eventsSeen, lastEvent, lsnAdd, storeVars,
                 dispVars, chanVars, txVars>>

\* outcomeReportedSub.Err() fires: sleep 5 s, subscribe again.
OutcomeReportedSubError(ok) ==
  /\ alive /\ ListenerAtSelect /\ SelectEvaluates
  /\ subErrors < MaxSubErrors
  /\ subErrors' = subErrors + 1
  /\ outcomeReported' = Subscribed(ok)
  /\ subCount' = IF ok THEN subCount + 1 ELSE subCount
  /\ UNCHANGED <<now, alive, mqVars, proposeOutcome, eventsSeen, lastEvent, lsnAdd, storeVars,
                 dispVars, chanVars, txVars>>

\* The select is evaluated with a nil subscription handle: calling Err() on
\* it is a nil dereference, and the panic ends the process.
ListenerNilSubPanic ==
  /\ alive /\ ListenerAtSelect /\ ~SelectEvaluates
  /\ alive' = FALSE
  /\ UNCHANGED <<now, mqVars, lsnVars, storeVars, dispVars, chanVars, txVars>>

\* What the chain and the verifier can answer while an event is handled.
PeriodAnswers == Periods \cup {CallFailed}
VerifierAnswers == VerifierOutcomes \cup {VerifyFailed}

\* The two log cases of the select, for events on the markets hs with block
\* times bts, the chain answering ps and the verifier vs.
ListenerEvents(hs, bts, ps, vs) ==
  \/ \E h \in hs, bt \in bts, p \in ps, v \in vs : HandleProposeOutcome(h, bt, p, v)
  \/ ListenerResume
  \/ \E h \in hs : HandleOutcomeReported(h)

\* The two log cases of the select, for logs that do not unpack.
ListenerBadLogs ==
  \/ HandleUndecodableLog("ProposeOutcome")
  \/ HandleUndecodableLog("OutcomeReported")

\* The two error cases of the select.
ListenerSubErrors ==
  \/ \E ok \in BOOLEAN : ProposeOutcomeSubError(ok)
  \/ \E ok \in BOOLEAN : OutcomeReportedSubError(ok)
  \/ ListenerNilSubPanic

----------------------------------------------------------------------------
(* The store dispatcher: startProcessingLoop.                              *)

\* time.Sleep returns and the range over marketItems starts. The loop is
\* started by newStoreProcessor, whose result NewReporterService assigns.
DispatcherWake ==
  /\ alive /\ scanLeft = {} /\ ~Blocked("disp")
  /\ storeProcessor = "set"
  /\ lastWake < now
  /\ lastWake' = now
  /\ scanLeft' = StoreKeys
  /\ UNCHANGED <<now, alive, mqVars, lsnVars, storeVars, chanVars, txVars, storeProcessor>>

\* A dispatcher that deletes the key it has just visited.
StoreAfterVisitDeleting(h) == StoreRemove(marketItems, h)

\* The store after the dispatcher has visited h.
StoreAfterVisit(h) == marketItems

\* The range loop reaches key h (skipped when it was deleted meanwhile): a
\* due market gets a Report queued.
DispatcherVisit(h) ==
  /\ alive /\ h \in scanLeft /\ ~Blocked("disp")
  /\ scanLeft' = scanLeft \ {h}
  /\ IF marketItems[h] # NoEntry /\ Eligible(marketItems[h], votingPeriod, now)
       THEN QueueReportingTx("disp", ReportOutcome, h, -1, VerifyFailed, 0)
       ELSE UNCHANGED chanVars
  /\ marketItems' = StoreAfterVisit(h)
  /\ UNCHANGED <<now, alive, mqVars, lsnVars, votingPeriod, lastWake, txVars, storeProcessor>>

Dispatcher == DispatcherWake \/ \E h \in Markets : DispatcherVisit(h)

\* The wall clock advances.
Tick ==
  /\ alive /\ now < MaxNow
  /\ now' = now + 1
  /\ UNCHANGED <<alive, mqVars, lsnVars, storeVars, dispVars, chanVars, txVars>>

----------------------------------------------------------------------------
(* The message consumer: startConsumeLoop, startConsumer, parseDelivery.   *)

\* Every restart is caused by a delivery or a signal, so this many
\* startConsumer calls can be made.
Gens == 1..(1 + MaxDeliveries + MaxSignals)

NoConsumer == [st |-> "none", d |-> NoDelivery]
IdleConsumer == [st |-> "idle", d |-> NoDelivery]

\* The number of the next startConsumer call that succeeds.
NextGen == Cardinality({g \in Gens : consumers[g].st # "none"}) + 1

\* parseDelivery: whether the body unmarshals into a Report.
ParseOk(d) == d.valid

\* The goroutine started by startConsumer call g takes a delivery from its
\* deliveries channel. A report is acknowledged and then offered on the
\* call's reports channel; a parse error is first offered on its errors
\* channel, the acknowledgement follows that send.
ConsumerReceive(g) ==
  /\ alive /\ amqpOpen
  /\ consumers[g].st = "idle"
  /\ delivered < Len(bus)
  /\ delivered' = delivered + 1
  /\ LET d == bus[delivered + 1] IN
       IF ParseOk(d)
         THEN /\ acked' = acked \cup {d.id}
              /\ consumers' = [consumers EXCEPT ![g] = [st |-> "repSend", d |-> d]]
         ELSE /\ acked' = acked
              /\ consumers' = [consumers EXCEPT ![g] = [st |-> "errSend", d |-> d]]
  /\ UNCHANGED <<now, alive, bus, amqpOpen, supGen, proposeCount, signals,
                 lsnVars, storeVars, dispVars, chanVars, txVars>>

\* The consume loop is at its select.
SupervisorAtSelect == ~Blocked("mq")

\* case report := <-reports: the report of the current consumer is taken
\* and queued as a Propose.
SupervisorReport ==
  /\ alive /\ SupervisorAtSelect
  /\ supGen # 0 /\ consumers[supGen].st = "repSend"
  /\ LET d == consumers[supGen].d IN
       /\ QueueReportingTx("mq", ProposeOutcome, d.marketHash, d.outcome, VerifyFailed, d.id)
       /\ proposeCount' = IF SentNow THEN [proposeCount EXCEPT ![d.id] = @ + 1]
                                     ELSE proposeCount
  /\ consumers' = [consumers EXCEPT ![supGen] = IdleConsumer]
  /\ UNCHANGED <<now, alive, bus, delivered, amqpOpen, supGen, acked, signals,
                 lsnVars, storeVars, dispVars, txVars>>

\* startConsumer called by the loop: on an open channel a new goroutine with
\* new reports and errors channels, on a closed one nil, nil and an error.
\* cs are the consumers as the step leaves the earlier ones.
StartConsumer(cs) ==
  IF amqpOpen
    THEN /\ consumers' = [cs EXCEPT ![NextGen] = IdleConsumer]
         /\ supGen' = NextGen
    ELSE /\ consumers' = cs
         /\ supGen' = 0

\* case err = <-errors: the parse error of the current consumer is taken
\* (its goroutine then acknowledges the delivery and goes on); sleep 2 s,
\* start a consumer again.
SupervisorError ==
  /\ alive /\ SupervisorAtSelect
  /\ supGen # 0 /\ consumers[supGen].st = "errSend"
  /\ acked' = IF amqpOpen THEN acked \cup {consumers[supGen].d.id} ELSE acked
  /\ StartConsumer([consumers EXCEPT ![supGen] = IdleConsumer])
  /\ UNCHANGED <<now, alive, bus, delivered, amqpOpen, proposeCount, signals,
                 lsnVars, storeVars, dispVars, chanVars, txVars>>

\* case <-common.GetTerminationSignalCh(): sleep 2 s, start a consumer again.
SupervisorSignal ==
  /\ alive /\ SupervisorAtSelect
  /\ signals < MaxSignals
  /\ signals' = signals + 1
  /\ StartConsumer(consumers)
  /\ UNCHANGED <<now, alive, bus, delivered, amqpOpen, acked, proposeCount,
                 lsnVars, storeVars, dispVars, chanVars, txVars>>

\* The broker goes away: the AMQP channel closes and with it every
\* deliveries channel. The connection is dialled once, in newMQService, so
\* a broker that comes back does not reopen it.
BrokerKill ==
  /\ alive /\ amqpOpen
  /\ amqpOpen' = FALSE
  /\ UNCHANGED <<now, alive, bus, delivered, consumers, supGen, acked, proposeCount, signals,
                 lsnVars, storeVars, dispVars, chanVars, txVars>>

\* HandleSignals has seen the signal too: the server is closed and the
\* process ends.
Shutdown ==
  /\ alive /\ signals > 0
  /\ alive' = FALSE
  /\ UNCHANGED <<now, mqVars, lsnVars, storeVars, dispVars, chanVars, txVars>>

\* The consumer goroutines, the consume loop and the broker.
Consumer ==
  \/ \E g \in Gens : ConsumerReceive(g)
  \/ SupervisorReport
  \/ SupervisorError
  \/ BrokerKill

\* A termination signal reaches the process.
Termination == SupervisorSignal \/ Shutdown

----------------------------------------------------------------------------
(* Specifications.                                                         *)

InitCommon ==
  /\ now = 0
  /\ alive = TRUE
  /\ delivered = 0
  /\ amqpOpen = TRUE
  /\ consumers = [g \in Gens |-> IF g = 1 THEN IdleConsumer ELSE NoConsumer]
  /\ supGen = 1
  /\ acked = {}
  /\ proposeCount = [i \in 1..MaxDeliveries |-> 0]
  /\ signals = 0
  /\ proposeOutcome = [sub |-> 1, logs |-> 1]
  /\ outcomeReported = [sub |-> 2, logs |-> 2]
  /\ subCount = 2
  /\ subErrors = 0
  /\ eventsSeen = 0
  /\ lastEvent = NoEvent
  /\ lsnAdd = NoAdd
  /\ votingPeriod = 0
  /\ scanLeft = {}
  /\ lastWake = 0
  /\ sendq = <<>>
  /\ invocations = {}
  /\ txLog = "none"
  /\ chainNonce = 0
  /\ pollTasks = 0

\* NewReporterService has returned: storeProcessor is assigned.
Constructed == storeProcessor = "set"

HealthyNonceRpc == nonceRpc = "healthy"
FaultyNonceRpc == nonceRpc = "faulty"
NonceRpcDown == nonceRpc = "down"

\* The store pipeline: listener, store, dispatcher, channel and worker, with
\* no bus traffic and healthy subscriptions.
Init ==
  /\ InitCommon
  /\ Constructed
  /\ HealthyNonceRpc
  /\ bus = <<>>
  /\ marketItems = [h \in Markets |-> NoEntry]
  /\ reportingTxChan = <<>>

Next ==
  \/ Tick
  \/ ListenerEvents(Markets, BlockTimes, PeriodAnswers, VerifierAnswers)
  \/ Dispatcher
  \/ Worker

Spec == Init /\ [][Next]_vars

\* The whole node with its three producers, for events on one market that
\* the chain and the verifier answer without failure.
InitNode ==
  /\ InitCommon
  /\ Constructed
  /\ HealthyNonceRpc
  /\ bus \in BusInput(BusDeliveries)
  /\ marketItems = [h \in Markets |-> NoEntry]
  /\ reportingTxChan = <<>>

NextNode ==
  \/ Tick
  \/ Consumer
  \/ Termination
  \/ ListenerEvents({"h1"}, {1}, {1}, VerifierOutcomes)
  \/ Dispatcher
  \/ Worker

SpecNode == InitNode /\ [][NextNode]_vars

\* The three producers of the channel and the worker, for bus messages that
\* parse and events on one market, with broker and process staying up.
InitChan ==
  /\ InitCommon
  /\ Constructed
  /\ HealthyNonceRpc
  /\ bus \in {b \in BusInput(ChanDeliveries) :
                \A i \in 1..ChanDeliveries : b[i].valid /\ b[i].marketHash = "h1"}
  /\ marketItems = [h \in Markets |-> NoEntry]
  /\ reportingTxChan = <<>>

NextChan ==
  \/ Tick
  \/ \E g \in Gens : ConsumerReceive(g)
  \/ SupervisorReport
  \/ ListenerEvents({"h1"}, {1}, {1}, VerifierOutcomes)
  \/ Dispatcher
  \/ Worker

SpecChan == InitChan /\ [][NextChan]_vars

\* The same with the worker scheduled whenever it can run, every RPC
\* answered and every transaction whose nonce is the account's count mined.
FairSpecChan == InitChan /\ [][NextChan]_vars /\ WF_vars(Worker)

\* The message consumer and the worker behind it.
InitMQ ==
  /\ InitCommon
  /\ Constructed
  /\ HealthyNonceRpc
  /\ bus \in BusInput(MaxDeliveries)
  /\ marketItems = [h \in Markets |-> NoEntry]
  /\ reportingTxChan = <<>>

NextMQ == Consumer \/ Worker

SpecMQ == InitMQ /\ [][NextMQ]_vars

\* The goroutines of the consumer and the worker are scheduled whenever they
\* can run and the chain answers; the broker's death is owed to no one.
FairMQ ==
  /\ \A g \in Gens : WF_vars(ConsumerReceive(g))
  /\ WF_vars(SupervisorReport)
  /\ WF_vars(SupervisorError)
  /\ WF_vars(Worker)

FairSpecMQ == InitMQ /\ [][NextMQ]_vars /\ FairMQ

\* The worker alone, draining reporting-txs queued for markets of the store,
\* against a faulty nonce RPC.
QueuedTxs ==
  { ReportingTx(f, h, QueuedOutcome(f, 2, 3)) : f \in FunctionTypes, h \in Markets }

InitTx ==
  /\ InitCommon
  /\ Constructed
  /\ FaultyNonceRpc
  /\ bus = <<>>
  /\ marketItems = [h \in Markets |-> 1]
  /\ reportingTxChan \in [1..MaxQueued -> QueuedTxs]

NextTx == Worker

SpecTx == InitTx /\ [][NextTx]_vars

\* The listener alone on a store that already holds any entries, while the
\* verifier is failing (nothing is queued): adds and removes only.
InitStore ==
  /\ InitCommon
  /\ Constructed
  /\ HealthyNonceRpc
  /\ bus = <<>>
  /\ marketItems \in [Markets -> {NoEntry} \cup BlockTimes]
  /\ reportingTxChan = <<>>

NextStore ==
  \/ \E h \in Markets, bt \in BlockTimes, p \in PeriodAnswers :
       HandleProposeOutcome(h, bt, p, VerifyFailed)
  \/ \E h \in Markets : HandleOutcomeReported(h)

SpecStore == InitStore /\ [][NextStore]_vars

\* NewReporterService with VerifyOutcomeURI empty: it returns before
\* newEventListener and newStoreProcessor, so storeProcessor stays nil and
\* the goroutines running are the consumer's and the worker's.
InitNoVerifier ==
  /\ InitCommon
  /\ storeProcessor = "nil"
  /\ HealthyNonceRpc
  /\ bus \in BusInput(MaxDeliveries)
  /\ marketItems = [h \in Markets |-> NoEntry]
  /\ reportingTxChan = <<>>

\* A NewReporterService that starts the listener and the dispatcher whatever
\* the configuration says.
NextNoVerifierStartingAll ==
  \/ Consumer
  \/ Worker
  \/ Tick
  \/ ListenerEvents({"h1"}, {1}, {1}, VerifierOutcomes)
  \/ Dispatcher

NextNoVerifier == Consumer \/ Worker

SpecNoVerifier == InitNoVerifier /\ [][NextNoVerifier]_vars

\* The store pipeline for events on one market, with a secrets backend that
\* can fail a lookup.
NextKey ==
  \/ Tick
  \/ ListenerEvents({"h1"}, {1}, {1}, VerifierOutcomes)
  \/ Dispatcher
  \/ Worker
  \/ WorkerNoKey

SpecKey == Init /\ [][NextKey]_vars

\* The worker alone while every getCurrentNonce call returns an error.
InitTxDown ==
  /\ InitCommon
  /\ Constructed
  /\ NonceRpcDown
  /\ bus = <<>>
  /\ marketItems = [h \in Markets |-> 1]
  /\ reportingTxChan \in [1..MaxQueued -> QueuedTxs]

SpecTxDown == InitTxDown /\ [][NextTx]_vars

\* The worker alone against a nonce RPC that always answers, scheduled
\* whenever it can run, with a chain that answers every call and mines
\* every pooled transaction whose nonce is the account's count.
InitTxAnswered ==
  /\ InitCommon
  /\ Constructed
  /\ HealthyNonceRpc
  /\ bus = <<>>
  /\ marketItems = [h \in Markets |-> 1]
  /\ reportingTxChan \in [1..MaxQueued -> QueuedTxs]

FairTx == WF_vars(Worker)

FairSpecTx == InitTxAnswered /\ [][NextTx]_vars /\ FairTx

\* NewReporterService between newEventListener and its return: the
\* listening loop is running already, and newStoreProcessor followed by the
\* assignment of reporterService.storeProcessor is one more step.
NewStoreProcessor ==
  /\ alive
  /\ storeProcessor = "nil"
  /\ storeProcessor' = "set"
  /\ UNCHANGED <<now, alive, mqVars, lsnVars, storeVars, scanLeft, lastWake, chanVars, txVars>>

\* The store pipeline from the moment newEventListener has returned.
InitStart ==
  /\ InitCommon
  /\ storeProcessor = "nil"
  /\ HealthyNonceRpc
  /\ bus = <<>>
  /\ marketItems = [h \in Markets |-> NoEntry]
  /\ reportingTxChan = <<>>

NextStart ==
  \/ NewStoreProcessor
  \/ Tick
  \/ ListenerEvents({"h1"}, {1}, {1}, VerifierOutcomes)
  \/ Dispatcher
  \/ Worker

SpecStart == InitStart /\ [][NextStart]_vars

\* The store pipeline with failing subscriptions, for events on one market
\* while the _votingPeriod call fails.
NextSub ==
  \/ Tick
  \/ ListenerEvents({"h1"}, {1}, {CallFailed}, VerifierOutcomes)
  \/ ListenerSubErrors
  \/ Dispatcher
  \/ Worker

SpecSub == Init /\ [][NextSub]_vars

\* The store pipeline for one market, with logs that do not unpack, a voting
\* period call and a verifier that can fail, and a verifier that can answer
\* the undecided outcome with status 200.
NextLsn ==
  \/ Tick
  \/ ListenerEvents({"h1"}, BlockTimes, {1, CallFailed}, VerifierAnswers \cup {Undecided})
  \/ ListenerBadLogs
  \/ Dispatcher
  \/ Worker

SpecLsn == Init /\ [][NextLsn]_vars

----------------------------------------------------------------------------
(* Properties.                                                             *)

\* C1: at most one sendTxWithRetry invocation is in progress at any time,
\* however the bus consumer, the event listener and the store dispatcher
\* interleave their sends on the channel; since every invocation starts with
\* a dequeue, a reporting-tx is dequeued only when the previous call is over.
C1_Serialization == Cardinality(invocations) <= 1

\* C1 case: a call waits for its receipt while the buffer is full of
\* reporting-txs of two producers and a third producer is parked on it.
C1_Witness ==
  /\ \E t \in invocations : t.pc = "wait"
  /\ Len(reportingTxChan) = ChanCap
  /\ Cardinality({reportingTxChan[i].functionType : i \in 1..Len(reportingTxChan)}) > 1
  /\ sendq # <<>>

\* The Report reporting-txs for h on the channel: buffered, or held by a
\* producer parked on it.
ReportsQueued(h) ==
  Cardinality({i \in 1..Len(reportingTxChan) :
                 reportingTxChan[i] = ReportingTx(ReportOutcome, h, 0)})
  + Cardinality({i \in 1..Len(sendq) : sendq[i].tx = ReportingTx(ReportOutcome, h, 0)})

\* The step hands an attempt of invocation t to the chain.
Submits(t) == t.pc = "send" /\ [t EXCEPT !.pc = "wait"] \in invocations'

\* C2: once a market hash has left the store, no reportOutcome transaction
\* for it is submitted until a ProposeOutcome event has added it again: a
\* reportOutcome attempt is handed to the chain only for a stored hash.
C2_NoReportAfterRemoval ==
  [][\A t \in invocations :
       (t.functionType = ReportOutcome /\ Submits(t)) => marketItems[t.marketHash] # NoEntry]_vars

\* Delivery i is on its way to the consume loop or through it: held by the
\* goroutine whose channels the loop selects on, or by the loop itself,
\* parked on the reporting-tx channel.
HeldForLoop(i) ==
  \/ supGen # 0 /\ consumers[supGen].st # "idle" /\ consumers[supGen].d.id = i
  \/ \E k \in 1..Len(sendq) : sendq[k].who = "mq" /\ sendq[k].id = i

\* C3: every valid delivery that was acknowledged is turned into exactly one
\* Propose reporting-tx, however deliveries and consumer restarts interleave:
\* it is on the channel once, or still held for the consume loop and not yet
\* on the channel; never twice and never dropped.
C3_ExactlyOnce ==
  \A i \in 1..Len(bus) :
    (bus[i].valid /\ i \in acked)
      => \/ proposeCount[i] = 1 /\ ~HeldForLoop(i)
         \/ proposeCount[i] = 0 /\ HeldForLoop(i)

\* C4: the dispatcher emits a Report for h only if h was added with a
\* timestamp ts and ts plus the voting period is at most the clock.
C4_StoreCausality ==
  [][\A h \in Markets :
       ReportsQueued(h)' > ReportsQueued(h)
         => marketItems[h] # NoEntry /\ marketItems[h] + votingPeriod <= now]_vars

\* C5: within one sendTxWithRetry invocation the nonce of each attempt is
\* at least the nonce of the attempt before it, whatever the nonce RPC
\* answers, failures included.
C5_NonceMonotone ==
  [][\A t \in invocations, u \in invocations' :
       u.txTry = t.txTry + 1 => u.currNonce >= t.currNonce]_vars

\* The receipt a waiting invocation polls for can never come: the nonce of
\* its transaction is past the account's count and the worker, the only
\* sender of the account, is the one waiting.
WaitsForever(t) == t.pc = "wait" /\ t.currNonce > chainNonce

\* C6: a ReportOutcome invocation for a stored hash h makes at most
\* maxTxTries attempts and ends, and whichever way its attempts end (a
\* success receipt, exhaustion, a submission error) h is then no longer in
\* the store: a running call never waits for a receipt that cannot come,
\* and the step that ends it leaves h out of the store.
C6_ReportLoopRemoves ==
  /\ [](\A t \in invocations :
         t.functionType = ReportOutcome => t.txTry < maxTxTries /\ ~WaitsForever(t))
  /\ [][\A t \in invocations :
          (t.functionType = ReportOutcome /\ invocations' = invocations \ {t})
            => marketItems'[t.marketHash] = NoEntry]_vars

\* C7: a delivery whose body does not parse yields no reporting-tx, is
\* acknowledged to the broker and has the consumer restarted: while the
\* broker is there, a malformed delivery taken from the queue is
\* acknowledged, or its error is held for the consume loop, whose taking it
\* restarts the consumer and lets the acknowledgement through.
C7_MalformedAcked ==
  \A i \in 1..delivered :
    ~bus[i].valid
      => /\ proposeCount[i] = 0
         /\ amqpOpen => (i \in acked \/ HeldForLoop(i))

\* The step handles a log event of the given kind for h.
Handles(kind, h) ==
  eventsSeen' = eventsSeen + 1 /\ lastEvent'.kind = kind /\ lastEvent'.marketHash = h

\* The step completes the ProposeOutcome handler parked before its add.
CompletesPropose(h) == lsnAdd.marketHash = h /\ lsnAdd' = NoAdd

\* The step ends a ReportOutcome call for h by success or by exhaustion.
EndsReport(h) ==
  \E t \in invocations :
    /\ t.functionType = ReportOutcome /\ t.marketHash = h
    /\ invocations' = invocations \ {t}
    /\ txLog' \in {"success", "exhausted"}

\* C8: an entry enters the store only by the handling of a ProposeOutcome
\* event for its hash; it leaves only by the handling of an OutcomeReported
\* event for the hash or by a ReportOutcome transaction loop for it ending in
\* success or exhaustion; the dispatcher removes nothing when it emits.
C8_StoreEntries ==
  [][\A h \in Markets :
       /\ (marketItems'[h] # NoEntry /\ marketItems'[h] # marketItems[h])
            => Handles("ProposeOutcome", h) \/ CompletesPropose(h)
       /\ (marketItems[h] # NoEntry /\ marketItems'[h] = NoEntry)
            => Handles("OutcomeReported", h) \/ EndsReport(h)
       /\ ReportsQueued(h)' > ReportsQueued(h) => marketItems' = marketItems]_vars

\* C8 case: the only event handled was a ProposeOutcome, its market was
\* added and, after the Report loop for it ran out of attempts, is gone.
C8_Witness ==
  /\ eventsSeen = 1 /\ lastEvent.kind = "ProposeOutcome"
  /\ lsnAdd = NoAdd /\ ~Blocked("lsn")
  /\ txLog = "exhausted"
  /\ marketItems[lastEvent.marketHash] = NoEntry

\* C9: when the AMQP channel has closed, the consume loop restarts the
\* consumer and consumption resumes: a valid delivery still waiting at the
\* broker is eventually turned into a Propose reporting-tx.
C9_ConsumptionResumes ==
  \A i \in 1..MaxDeliveries :
    (~amqpOpen /\ delivered < i /\ bus[i].valid) ~> (proposeCount[i] >= 1)

\* The listener is alive and its select hands it the stream's events.
StreamHandled(stream) == alive /\ SelectEvaluates /\ stream.logs # 0

\* C10: when the error channel of one of the two subscriptions fires, only
\* that stream is subscribed again; the subscription handle and the log
\* channel of the other stream are left as they were and its events go on
\* being handled.
C10_StreamIsolation ==
  [][subErrors' = subErrors + 1
       => \/ /\ proposeOutcome' # proposeOutcome
             /\ outcomeReported' = outcomeReported
             /\ StreamHandled(outcomeReported)'
          \/ /\ outcomeReported' # outcomeReported
             /\ proposeOutcome' = proposeOutcome
             /\ StreamHandled(proposeOutcome)']_vars

\* The step takes from a log stream a log that does not unpack.
HandlesUndecodable == eventsSeen' = eventsSeen + 1 /\ lastEvent'.marketHash = NoMarket

\* C11: an event log whose payload cannot be unpacked is logged and skipped:
\* handling it enqueues no reporting-tx, adds and removes no store entry, and
\* the listening loop is at its select again for the next event.
C11_UndecodableSkipped ==
  [][HandlesUndecodable
       => /\ reportingTxChan' = reportingTxChan /\ sendq' = sendq
          /\ marketItems' = marketItems
          /\ alive' /\ ListenerAtSelect']_vars

\* The Vote reporting-txs for h on the channel, buffered or parked.
VotesQueued(h) ==
  Cardinality({i \in 1..Len(reportingTxChan) :
                 /\ reportingTxChan[i].functionType = VoteOutcome
                 /\ reportingTxChan[i].marketHash = h})
  + Cardinality({i \in 1..Len(sendq) :
                   sendq[i].tx.functionType = VoteOutcome /\ sendq[i].tx.marketHash = h})

\* C12: when the verifier fails for the market of a ProposeOutcome event,
\* the handling enqueues nothing, yet adds the market to the store with the
\* event's block time (so the dispatcher will find it); and the verifier is
\* not asked again: a Vote for h appears on the channel only in a step that
\* handles a ProposeOutcome event for h whose verification succeeded.
C12_FailedVerifySkipsVote ==
  [][\A h \in Markets :
       /\ (Handles("ProposeOutcome", h) /\ lastEvent'.verifier = VerifyFailed)
            => /\ reportingTxChan' = reportingTxChan /\ sendq' = sendq
               /\ lsnAdd' = NoAdd
               /\ marketItems'[h] = ToUint64(lastEvent'.blockTime)
       /\ VotesQueued(h)' > VotesQueued(h)
            => Handles("ProposeOutcome", h) /\ lastEvent'.verifier # VerifyFailed]_vars

\* C12 case: the only event so far was a ProposeOutcome whose verification
\* failed, no Vote was made for it, and the dispatcher has emitted the
\* Report for its store entry.
C12_Witness ==
  /\ eventsSeen = 1 /\ lastEvent.kind = "ProposeOutcome"
  /\ lastEvent.marketHash \in Markets
  /\ lastEvent.verifier = VerifyFailed
  /\ marketItems[lastEvent.marketHash] = lastEvent.blockTime
  /\ VotesQueued(lastEvent.marketHash) = 0
  /\ ReportsQueued(lastEvent.marketHash) > 0

\* C13: after startup no runtime failure reaches the top level: whatever
\* fails (a re-subscription, a consumer restart, a log that does not unpack,
\* the verifier, the nonce RPC, a submission), the process is not ended and
\* the consume loop still has a consumer to select on.
C13_FailuresStayLocal == alive /\ supGen # 0

\* C14: a reporting-tx whose outcome is the undecided -1 is dropped by the
\* worker: no proposeOutcome or voteOutcome attempt with outcome -1 is ever
\* handed to the chain.
C14_NoUndecidedSubmission ==
  [][\A t \in invocations :
       (t.functionType \in {ProposeOutcome, VoteOutcome} /\ Submits(t))
         => t.outcome # Undecided]_vars

\* The step is the dispatcher's visit of key h in its range loop.
Visits(h) == h \in scanLeft /\ scanLeft' = scanLeft \ {h}

\* The step emits one Report reporting-tx for h.
EmitsReport(h) == ReportsQueued(h)' = ReportsQueued(h) + 1

\* C15 as stated: with voting period 0, every market of the store is found
\* eligible by the dispatcher's pass that follows its add, and a Report
\* reporting-tx is emitted for it.
C15_ZeroPeriodReportsNextTick ==
  [][\A h \in Markets :
       (Visits(h) /\ votingPeriod = 0 /\ marketItems[h] # NoEntry) => EmitsReport(h)]_vars

\* C15 amended: with voting period 0, a market of the store whose block
\* time is not ahead of the local clock is found eligible by the dispatcher's
\* pass and a Report reporting-tx is emitted for it; one whose block time is
\* still ahead of the clock gets none on that pass.
C15_ZeroPeriodReportsWhenDue ==
  [][\A h \in Markets :
       (Visits(h) /\ votingPeriod = 0 /\ marketItems[h] # NoEntry)
         => IF marketItems[h] <= now
              THEN EmitsReport(h)
              ELSE ReportsQueued(h)' = ReportsQueued(h)]_vars

\* C15 case: with voting period 0 the market of the last ProposeOutcome
\* event has had its Report emitted on a pass made at the very second of its
\* block time.
C15_Witness ==
  /\ votingPeriod = 0 /\ lastEvent.kind = "ProposeOutcome"
  /\ lastEvent.marketHash \in Markets
  /\ marketItems[lastEvent.marketHash] = now /\ lastWake = now /\ scanLeft = {}
  /\ ReportsQueued(lastEvent.marketHash) > 0

\* The step is the refusal of invocation t's attempt with "nonce too low",
\* after which u is the invocation at its next attempt.
RetriesNonceTooLow(t, u) ==
  /\ t.pc = "send" /\ u.pc = "send"
  /\ u.txTry = t.txTry + 1
  /\ invocations' = (invocations \ {t}) \cup {u}

\* C16: when the first submission is refused with "nonce too low", the
\* second one is made with try 1, with the nonce max(r, r + 1) of a freshly
\* fetched nonce r, and with the gas price of the first submission.
C16_NonceTooLowRetry ==
  [][\A t \in invocations, u \in invocations' :
       (t.txTry = 0 /\ RetriesNonceTooLow(t, u))
         => /\ u.txTry = 1
            /\ \E r \in NonceAnswers(chainNonce) : u.currNonce = Max(r, r + 1)
            /\ u.gasPrice = t.gasPrice]_vars

\* The step ends an attempt of invocation t without a success receipt:
\* its txn.Do is refused with "nonce too low" or its receipt has status 0.
FailsAttempt(t) ==
  /\ t \notin invocations'
  /\ ~Submits(t)
  /\ txLog' \notin {"success", "fatal"}

\* C17: when the fourth attempt of a Report invocation ends without a
\* success receipt, whatever mix of status-0 receipts and nonce-too-low
\* refusals the four were, the invocation ends there and the market's store
\* entry is removed; no invocation is ever at a fifth attempt.
C17_ReportExhaustionCleanup ==
  [][/\ \A u \in invocations' : u.txTry < maxTxTries
     /\ \A t \in invocations :
          (t.functionType = ReportOutcome /\ t.txTry = maxTxTries - 1 /\ FailsAttempt(t))
            => /\ invocations' = invocations \ {t}
               /\ txLog' = "exhausted"
               /\ marketItems'[t.marketHash] = NoEntry]_vars

\* C17 case: the first of the two queued reporting-txs was a Report that
\* ran out of tries, at least one of them on a status-0 receipt, and its
\* market is the one entry that has left the store.
C17_Witness ==
  /\ txLog = "exhausted" /\ invocations = {}
  /\ Len(reportingTxChan) = MaxQueued - 1
  /\ chainNonce > 0
  /\ Cardinality({h \in Markets : marketItems[h] = NoEntry}) = 1

\* The step reads the receipt of invocation t's mined attempt and writes
\* the success line: the receipt has status 1.
ReceivesSuccess(t) ==
  t.pc = "wait" /\ chainNonce' = chainNonce + 1 /\ txLog' = "success"

\* C18: a receipt with status 1 for the reportOutcome transaction of a due
\* store entry ends the sendTxWithRetry invocation, with no attempt after
\* it, and removes the market from the store.
C18_DeferredReportSuccess ==
  [][\A t \in invocations :
       (t.functionType = ReportOutcome /\ ReceivesSuccess(t))
         => /\ invocations' = invocations \ {t}
            /\ marketItems'[t.marketHash] = NoEntry]_vars

\* C18 case: one ProposeOutcome event was handled, its verification failed
\* so that no Vote was made, and the one transaction mined since, the Report
\* the dispatcher emitted for the entry, got a success receipt: the entry
\* has left the store.
C18_Witness ==
  /\ eventsSeen = 1 /\ lastEvent.kind = "ProposeOutcome"
  /\ lastEvent.marketHash \in Markets
  /\ lastEvent.verifier = VerifyFailed
  /\ chainNonce = 1 /\ txLog = "success" /\ invocations = {}
  /\ marketItems[lastEvent.marketHash] = NoEntry

\* The reporting-txs on their way to the worker, in the order it will take
\* them: the buffer, then the sends parked on it.
Pending == reportingTxChan \o [i \in 1..Len(sendq) |-> sendq[i].tx]

\* The only log handled so far is a ProposeOutcome event for h, so that
\* every Vote and every Report for h stems from that event.
OnlyProposed(h) ==
  eventsSeen = 1 /\ lastEvent.kind = "ProposeOutcome" /\ lastEvent.marketHash = h

C20_ProposeOutcomeHandling ==
  [][\A h \in Markets :
       /\ Handles("ProposeOutcome", h)
            => /\ votingPeriod' = SyncVotingPeriod(lastEvent'.period)
               /\ lastEvent'.verifier # VerifyFailed
                    => /\ VotesQueued(h)' = VotesQueued(h) + 1
                       /\ Pending'[Len(Pending')]
                            = ReportingTx(VoteOutcome, h, lastEvent'.verifier)
               /\ IF Blocked("lsn")'
                    THEN /\ marketItems' = marketItems
                         /\ lsnAdd' = [marketHash |-> h, ts |-> lastEvent'.blockTime]
                    ELSE /\ marketItems'[h] = lastEvent'.blockTime
                         /\ lsnAdd' = NoAdd
       /\ CompletesPropose(h) => marketItems'[h] = lastEvent.blockTime]_vars

\* C20 case: the last log handled was a ProposeOutcome event; its Vote, with
\* the verifier's outcome, is the last reporting-tx of the full buffer while
\* the worker is busy, the handler is through, and the store maps the market
\* to the event's block time under the period the chain answered.
C20_Witness ==
  /\ lastEvent.kind = "ProposeOutcome" /\ lastEvent.marketHash \in Markets
  /\ lastEvent.verifier \in VerifierOutcomes
  /\ lastEvent.period \in Periods /\ votingPeriod = lastEvent.period
  /\ lsnAdd = NoAdd /\ sendq = <<>> /\ Len(reportingTxChan) = ChanCap
  /\ reportingTxChan[ChanCap]
       = ReportingTx(VoteOutcome, lastEvent.marketHash, lastEvent.verifier)
  /\ invocations # {}
  /\ marketItems[lastEvent.marketHash] = lastEvent.blockTime

\* The last log handled is an OutcomeReported event for h: no ProposeOutcome
\* event for h has been handled since.
LastReported(h) == lastEvent.kind = "OutcomeReported" /\ lastEvent.marketHash = h

\* C21: handling an OutcomeReported event for h takes h out of the store,
\* and as long as no new ProposeOutcome event for h is handled the store does
\* not get h back and the dispatcher emits no Report reporting-tx for h.
C21_ReportedStaysOut ==
  [][\A h \in Markets :
       /\ Handles("OutcomeReported", h) => marketItems'[h] = NoEntry
       /\ (LastReported(h) /\ ~Handles("ProposeOutcome", h))
            => /\ marketItems[h] = NoEntry /\ marketItems'[h] = NoEntry
               /\ ReportsQueued(h)' <= ReportsQueued(h)]_vars

\* C21 case: a ProposeOutcome and then an OutcomeReported event were handled
\* for a market, the dispatcher has made a pass at the last second of the
\* clock, and neither the store nor the channel holds anything for it.
C21_Witness ==
  /\ eventsSeen = 2 /\ lastEvent.kind = "OutcomeReported"
  /\ lastEvent.marketHash \in Markets
  /\ marketItems[lastEvent.marketHash] = NoEntry
  /\ ReportsQueued(lastEvent.marketHash) = 0
  /\ pollTasks > 0
  /\ now = MaxNow /\ lastWake = now /\ scanLeft = {}

\* C22: an invocation makes at most maxTxTries = 4 attempts; attempt txTry
\* (0..3) goes out with gas price (txTry + 1) x 10^9 wei, never more than
\* 4 x 10^9, and gas limit 1,000,000; the first attempt carries the nonce
\* the nonce RPC answered and gas price 10^9.
C22_AttemptOptions ==
  [][/\ \A u \in invocations' :
          /\ u.txTry \in 0..(maxTxTries - 1)
          /\ u.gasPrice = (u.txTry + 1) * txGasPriceWei
          /\ u.gasPrice <= 4 * txGasPriceWei
          /\ u.gasLimit = txGasLimitWei
     /\ \A u \in invocations' \ invocations :
          (u.txTry = 0 /\ u.pc = "send")
            => u.currNonce \in NonceAnswers(chainNonce) /\ u.gasPrice = txGasPriceWei]_vars

\* C22 case: the fourth attempt of an invocation is with the chain, at four
\* times the base gas price, after three attempts that were mined.
C22_Witness ==
  \E t \in invocations :
    /\ t.pc = "wait" /\ t.txTry = maxTxTries - 1
    /\ t.gasPrice = 4 * txGasPriceWei
    /\ chainNonce = 3

\* C23: a submission error other than "nonce too low" ends the invocation
\* at once: it was at its send (no receipt is awaited), nothing takes its
\* place (no further attempt), and the store is left as it is, so that the
\* entry of a Report is still there for the dispatcher's next pass.
C23_FatalSubmissionError ==
  [][\A t \in invocations :
       (t \notin invocations' /\ txLog' = "fatal")
         => /\ t.pc = "send"
            /\ invocations' = invocations \ {t}
            /\ pollTasks' = pollTasks
            /\ marketItems' = marketItems]_vars

\* C23 case: the Report for the market of the one event handled ended on a
\* submission error before any transaction was accepted; the entry is still
\* in the store and a Report for it is on the channel again.
C23_Witness ==
  /\ eventsSeen = 1 /\ lastEvent.kind = "ProposeOutcome"
  /\ lastEvent.marketHash \in Markets
  /\ lastEvent.verifier = VerifyFailed
  /\ txLog = "fatal" /\ invocations = {} /\ pollTasks = 0
  /\ marketItems[lastEvent.marketHash] # NoEntry
  /\ ReportsQueued(lastEvent.marketHash) > 0

\* The step is the consume loop taking the report of delivery d from the
\* current consumer and calling queueReportingTx with it.
TakesReport(d) ==
  /\ supGen # 0 /\ consumers[supGen].st = "repSend" /\ consumers[supGen].d = d
  /\ consumers'[supGen].st = "idle"

\* The step is the worker taking the head of the channel into a new
\* sendTxWithRetry call u.
Dequeues(u) == u \in invocations' \ invocations /\ u.txTry = 0 /\ u.pc = "send"

\* C24: the verifier has no part in a Propose: the outcome of a bus message
\* goes into the Propose reporting-tx as it came, whatever the verifier would
\* say, and the worker hands on the function type, market and outcome of the
\* reporting-tx it dequeues without asking anyone.
C24_ProposeUnverified ==
  [][/\ \A i \in 1..Len(bus) :
          TakesReport(bus[i])
            => /\ Len(Pending') = Len(Pending) + 1
               /\ Pending'[Len(Pending')]
                    = ReportingTx(ProposeOutcome, bus[i].marketHash, bus[i].outcome)
     /\ \A u \in invocations' :
          Dequeues(u)
            => ReportingTx(u.functionType, u.marketHash, u.outcome) = Head(reportingTxChan)]_vars

\* C24 case: the Propose made from the first delivery is with the chain,
\* carrying the outcome of the bus message.
C24_Witness ==
  /\ Len(bus) > 0 /\ bus[1].valid /\ proposeCount[1] = 1
  /\ \E t \in invocations :
       /\ t.functionType = ProposeOutcome /\ t.pc = "wait"
       /\ t.marketHash = bus[1].marketHash /\ t.outcome = bus[1].outcome
  /\ chainNonce = 0

\* The step adds one reporting-tx at the tail of the channel and leaves the
\* ones before it as they were.
Enqueues ==
  /\ Len(Pending') = Len(Pending) + 1
  /\ SubSeq(Pending', 1, Len(Pending)) = Pending

\* C25: the channel's buffer never holds more than its capacity, and
\* producers are parked only on a full buffer; every reporting-tx a producer
\* sends (the consume loop for a report, the listener for a verified
\* ProposeOutcome, the dispatcher for an eligible entry) joins the tail of the
\* channel whether the buffer is full or not; a parked producer does nothing
\* else, and the only step that takes anything from the channel is the
\* worker's receive, which takes the oldest element and lets the first parked
\* producer's element in.
C25_ChannelBounded ==
  [][/\ Len(reportingTxChan') <= ChanCap
     /\ sendq' # <<>> => Len(reportingTxChan') = ChanCap
     /\ \A i \in 1..Len(bus) : TakesReport(bus[i]) => Enqueues
     /\ \A h \in Markets :
          /\ (Handles("ProposeOutcome", h) /\ lastEvent'.verifier # VerifyFailed) => Enqueues
          /\ (Visits(h) /\ marketItems[h] # NoEntry
                /\ Eligible(marketItems[h], votingPeriod, now)) => Enqueues
     /\ Blocked("lsn") => eventsSeen' = eventsSeen /\ lsnAdd' = lsnAdd
     /\ Blocked("disp") => scanLeft' = scanLeft /\ lastWake' = lastWake
     /\ Blocked("mq")
          => /\ supGen' = supGen
             /\ supGen # 0 => consumers'[supGen].st # "idle" \/ consumers[supGen].st = "idle"
     /\ \/ Pending' = Pending /\ sendq' = sendq
        \/ Enqueues
        \/ /\ Pending # <<>> /\ Pending' = Tail(Pending)
           /\ \E u \in invocations' : Dequeues(u)]_vars

\* C25 case: the buffer is full with the three producers parked behind it,
\* while the worker is busy with an earlier transaction.
C25_Witness ==
  /\ Len(reportingTxChan) = ChanCap
  /\ Blocked("mq") /\ Blocked("lsn") /\ Blocked("disp")
  /\ invocations # {}

\* The dispatcher is inside its range over the map: it has keys left to
\* visit, or is parked in queueReportingTx called from the loop body.
Scanning == scanLeft # {} \/ Blocked("disp")

\* C26: the dispatcher's scan of the map never overlaps an add or a remove:
\* while the scan is under way, no step of the listener or of the worker
\* changes the map.
C26_ScanExcludesMutation ==
  [][Scanning => marketItems' = marketItems]_vars

\* C27: the voting period changes only in a step that handles a
\* ProposeOutcome event whose _votingPeriod call answered, and becomes that
\* answer; a ProposeOutcome handled while the call fails leaves it as it
\* was; and it is the dispatcher that reads it: a stored market it visits
\* gets a Report exactly when block time plus the period is not past now.
C27_VotingPeriodFrame ==
  [][/\ votingPeriod' # votingPeriod
          => \E h \in Markets :
               /\ Handles("ProposeOutcome", h)
               /\ lastEvent'.period # CallFailed
               /\ votingPeriod' = lastEvent'.period % (UintMax + 1)
     /\ \A h \in Markets :
          /\ (Handles("ProposeOutcome", h) /\ lastEvent'.period = CallFailed)
                => votingPeriod' = votingPeriod
          /\ (Visits(h) /\ marketItems[h] # NoEntry)
                => (EmitsReport(h) <=> (marketItems[h] + votingPeriod) % (UintMax + 1) <= now)]_vars

\* C27 case: a first ProposeOutcome set the period from the chain, and a
\* second one was handled while the call failed; the period is the first
\* answer still.
C27_Witness ==
  /\ eventsSeen = 2
  /\ lastEvent.kind = "ProposeOutcome" /\ lastEvent.period = CallFailed
  /\ votingPeriod = 1
  /\ alive

\* C28: a receipt-poll task ends once its receipt has been handed over, so
\* at most one of them is alive at any time, however many transactions have
\* been sent.
C28_PollTasksTransient == pollTasks <= 1

\* C29: a sendTxWithRetry call for a Propose or a Vote leaves the store as
\* it is in every step it takes and on every way it ends: success receipt,
\* failed receipt, retry, exhaustion, fatal submission error.
C29_ProposeVoteLeaveStore ==
  [][(/\ invocations' # invocations
      /\ \A t \in invocations \cup invocations' :
           t.functionType \in {ProposeOutcome, VoteOutcome})
       => marketItems' = marketItems]_vars

\* C29 case: the worker has drained the channel, the last call ended by a
\* success receipt, and every market is in the store still: that call was a
\* Propose or a Vote for a stored market.
C29_Witness ==
  /\ txLog = "success" /\ invocations = {} /\ reportingTxChan = <<>>
  /\ chainNonce >= 1
  /\ \A h \in Markets : marketItems[h] # NoEntry

\* C30: the listener handles no ProposeOutcome and no OutcomeReported event
\* before reporterService.storeProcessor is assigned, so its store.add and
\* store.remove always find the store.
C30_StoreBeforeEvents ==
  [][(\E h \in Markets :
        Handles("ProposeOutcome", h) \/ Handles("OutcomeReported", h))
       => storeProcessor = "set" /\ alive']_vars

\* The worker has nothing left to do: the channel is drained and the
\* sendTxWithRetry call has returned.
WorkerIdle == reportingTxChan = <<>> /\ sendq = <<>> /\ invocations = {}

\* C31: with every RPC answered and every transaction whose nonce is the
\* account's count mined, each reporting-tx on the channel is eventually
\* taken and its sendTxWithRetry call eventually returns (the account's count
\* reaching the end of the machine word is left aside).
C31_SerializerProgress ==
  (~WorkerIdle) ~> (WorkerIdle \/ chainNonce = UintMax)

\* The one event handled so far is a ProposeOutcome whose _votingPeriod
\* call failed: the voting period has never been read from the chain.
PeriodNeverRead ==
  eventsSeen = 1 /\ lastEvent.kind = "ProposeOutcome" /\ lastEvent.period = CallFailed

\* C32: no Report is emitted while the voting period is still the initial
\* zero because the _votingPeriod call made for the entry's ProposeOutcome
\* event failed.
C32_NoReportOnUnreadPeriod ==
  [][PeriodNeverRead => \A h \in Markets : ~EmitsReport(h)]_vars

\* C33: the eligibility test is exact over the machine word: a stored
\* market whose timestamp plus voting period, added as numbers, is past the
\* clock gets no Report from the dispatcher's visit, whether or not the sum
\* fits the word.
C33_EligibilityExact ==
  [][\A h \in Markets :
       (Visits(h) /\ marketItems[h] # NoEntry /\ marketItems[h] + votingPeriod > now)
         => ~EmitsReport(h)]_vars

\* C34: while getCurrentNonce returns an error, before the first attempt
\* and at every refresh, sendTxWithRetry hands no attempt to the chain: no
\* transaction goes out with the fallback nonce 0 or 1.
C34_NoSubmissionOnNonceError ==
  [][NonceRpcDown => \A t \in invocations : ~Submits(t)]_vars

\* The step is a sendTxWithRetry call that found no private key: the head
\* of the channel is taken and "private key error" is logged.
FindsNoKey == Pending # <<>> /\ Pending' = Tail(Pending) /\ txLog' = "private key error"

\* C35: when the reporter key cannot be loaded, sendTxWithRetry submits
\* nothing and returns, so the worker goes on; the store is left as it is,
\* and the entry of a Report stays for the dispatcher's next pass.
C35_NoKeyNoSubmission ==
  [][FindsNoKey => /\ invocations' = {} /\ chainNonce' = chainNonce
                   /\ marketItems' = marketItems
                   /\ alive']_vars

\* C36: the pipeline does not lock up: with a responsive chain, a full
\* channel is always eventually given room by the worker (the account's
\* count reaching the end of the machine word is left aside).
C36_FullChannelDrained ==
  (Len(reportingTxChan) = ChanCap)
    ~> (Len(reportingTxChan) < ChanCap \/ chainNonce = UintMax)

\* A re-subscribe attempt has failed: one of the two handles is nil.
ResubscribeFailed == proposeOutcome.sub = 0 \/ outcomeReported.sub = 0

\* C37: when a re-subscribe attempt has failed, the listening loop keeps
\* running, so that it can try again: no step taken with a handle lost ends
\* the process.
C37_ResubscribeRetried ==
  [][ResubscribeFailed => alive']_vars

\* C38: with no verifier URL configured, every reporting-tx on the channel
\* and every sendTxWithRetry call is a Propose; no Vote and no Report is
\* queued or sent, and the store, which was never made, holds nothing.
C38_OnlyProposals ==
  /\ \A i \in 1..Len(Pending) : Pending[i].functionType = ProposeOutcome
  /\ \A t \in invocations : t.functionType = ProposeOutcome
  /\ StoreKeys = {}
  /\ storeProcessor = "nil"

\* C38 case: without the verifier, the Propose of the first bus message has
\* been mined and the Propose of a later one is on the channel.
C38_Witness ==
  /\ storeProcessor = "nil"
  /\ Len(bus) > 0 /\ proposeCount[1] = 1
  /\ txLog = "success" /\ chainNonce = 1
  /\ reportingTxChan # <<>>

\* C39: the store holds one timestamp per market hash. An add for h makes
\* the event's block time the timestamp of h, replacing the one it had, and
\* changes no other entry; a remove for h takes h out and changes no other
\* entry, and leaves the store as it is when h is absent; removing h from
\* the store twice gives what removing it once gives.
C39_StoreAlgebra ==
  [][\A h \in Markets :
       /\ Handles("ProposeOutcome", h)
            => /\ marketItems'[h] = lastEvent'.blockTime % (UintMax + 1)
               /\ \A g \in Markets \ {h} : marketItems'[g] = marketItems[g]
       /\ Handles("OutcomeReported", h)
            => /\ marketItems'[h] = NoEntry
               /\ \A g \in Markets \ {h} : marketItems'[g] = marketItems[g]
               /\ marketItems[h] = NoEntry => marketItems' = marketItems
               /\ StoreRemove(marketItems', h) = marketItems']_vars

\* C39 case: two ProposeOutcome events for h1, the second with a later
\* block time, while h2 is in the store: h1 has the later time, h2 its own.
C39_Witness ==
  /\ eventsSeen = 2
  /\ lastEvent.kind = "ProposeOutcome" /\ lastEvent.marketHash = "h1"
  /\ lastEvent.blockTime = 2
  /\ marketItems["h1"] = 2 /\ marketItems["h2"] = 1

====
